---- MODULE Spec2Model ----
(***************************************************************************)
(* The reservation engine of the real-estate marketplace: the stored       *)
(* functions create_request, cancel_request and respond_to_request of      *)
(* supabase/migrations/..._003_row_level_security.sql, run as concurrent   *)
(* READ COMMITTED transactions over the tables and the partial unique      *)
(* index of supabase/migrations/..._004_add_expo_push_token.sql.           *)
(*                                                                         *)
(* Every SQL statement of a function is one step of the transaction that   *)
(* runs it.  A row carries xmin (the transaction that inserted it and has  *)
(* not committed yet, 0 once committed), xmax (the transaction holding its *)
(* row lock, 0 when free) and upd (the status written by the lock holder   *)
(* and not committed yet).  A RAISE EXCEPTION rolls the transaction back.  *)
(***************************************************************************)
EXTENDS Integers, Sequences, FiniteSets, TLC

\* ----------------------------------------------------------------- bounds
NumTxns == 2
NumCalls == 3
MaxRequests == 2
NumSessions == 2
MaxRpcs == 3
NumSerial == 3

\* ------------------------------------------------------------------- data
Txns == 1..NumTxns
Calls == 1..NumCalls
Sessions == 1..NumSessions
Serial == 1..NumSerial

Users == {"S", "B", "C"}
Properties == {"P", "Q"}
\* uuids that name no row
NoProperty == "Z"
NoRequest == 0
PropertyIds == Properties \cup {NoProperty}

property_status == {"available", "requested", "sold", "withdrawn"}
request_status == {"pending", "accepted", "declined", "cancelled"}

\* SQLSTATEs raised by the three functions
Success == "00000"
P0001 == "P0001"
P0002 == "P0002"
P0003 == "P0003"
P0004 == "P0004"
P0005 == "P0005"
unique_violation == "23505"

None == "none"

VARIABLES properties, requests, property_history, pc, call, v, result

\* The notification path: the request queue of pg_net, the calls of the edge
\* function send-request-push made from it, and one run of
\* sendExpoPushNotification.
VARIABLES http_request_queue, invocations, push

\* The mobile client: one call of the request API (createRequest,
\* cancelRequest) and the property details screen.
VARIABLES api, screen

vars == <<properties, requests, property_history, pc, call, v, result,
          http_request_queue, invocations, push, api, screen>>

\* seller_id of the listed properties (properties.seller_id)
seller_id == [p \in Properties |-> IF p = "P" THEN "S" ELSE "B"]

NoCall == [op |-> None, p_user |-> None, p_property |-> None,
           p_request_id |-> NoRequest, p_response |-> None]

NoLocals == [v_status |-> None, v_seller_id |-> None, v_buyer_id |-> None,
             v_property_id |-> None, v_request_id |-> NoRequest, found |-> FALSE]

NoResult == [sqlstate |-> None, value |-> 0]

\* ---------------------------------------------------------------- storage
\* A row another transaction may lock: its lock is free or already ours.
LockFree(row, t) == row.xmax \in {0, t}

\* The rows of requests a statement of another transaction can see.
Visible(r) == r \in DOMAIN requests /\ requests[r].xmin = 0

\* COMMIT: inserted rows become visible, written statuses become current,
\* row locks are released.
CommitProperties(t) ==
  [p \in DOMAIN properties |->
     IF properties[p].xmax = t
     THEN [properties[p] EXCEPT !.status = IF properties[p].upd = None
                                           THEN properties[p].status
                                           ELSE properties[p].upd,
                                !.xmax = 0, !.upd = None]
     ELSE properties[p]]

CommitRequests(t) ==
  [r \in DOMAIN requests |->
     LET row == requests[r]
         ins == IF row.xmin = t THEN [row EXCEPT !.xmin = 0] ELSE row
     IN IF ins.xmax = t
        THEN [ins EXCEPT !.status = IF ins.upd = None THEN ins.status ELSE ins.upd,
                         !.xmax = 0, !.upd = None]
        ELSE ins]

CommitHistory(t) ==
  [i \in DOMAIN property_history |->
     IF property_history[i].xmin = t
     THEN [property_history[i] EXCEPT !.xmin = 0]
     ELSE property_history[i]]

\* Faulty variant: the abort does not release the row locks on properties.
RollbackProperties_leak(t) == properties

\* ROLLBACK: inserted rows vanish, written statuses are dropped, row locks
\* are released.
RollbackProperties(t) ==
  [p \in DOMAIN properties |->
     IF properties[p].xmax = t
     THEN [properties[p] EXCEPT !.xmax = 0, !.upd = None]
     ELSE properties[p]]

RollbackRequests(t) ==
  [r \in {x \in DOMAIN requests : requests[x].xmin # t} |->
     IF requests[r].xmax = t
     THEN [requests[r] EXCEPT !.xmax = 0, !.upd = None]
     ELSE requests[r]]

RollbackHistory(t) ==
  SelectSeq(property_history, LAMBDA h : h.xmin # t)

\* RETURN at the end of the function: the RPC's transaction commits.
Return(t, value) ==
  /\ properties' = CommitProperties(t)
  /\ requests' = CommitRequests(t)
  /\ property_history' = CommitHistory(t)
  /\ pc' = [pc EXCEPT ![t] = "done"]
  /\ v' = [v EXCEPT ![t] = NoLocals]
  /\ result' = [result EXCEPT ![t] = [sqlstate |-> Success, value |-> value]]
  /\ UNCHANGED call

\* RAISE EXCEPTION ... USING ERRCODE: the RPC's transaction aborts.
Raise(t, errcode) ==
  /\ properties' = RollbackProperties(t)
  /\ requests' = RollbackRequests(t)
  /\ property_history' = RollbackHistory(t)
  /\ pc' = [pc EXCEPT ![t] = "done"]
  /\ v' = [v EXCEPT ![t] = NoLocals]
  /\ result' = [result EXCEPT ![t] = [sqlstate |-> errcode, value |-> 0]]
  /\ UNCHANGED call

Goto(t, label) == pc' = [pc EXCEPT ![t] = label]

\* ---------------------------------------------------------------- clients
\* Request rows in the table or about to be inserted by a running call.
Allocated ==
  Cardinality(DOMAIN requests)
  + Cardinality({t \in DOMAIN pc : call[t].op = "create_request"
                               /\ pc[t] \in {"cr_lock", "cr_check", "cr_insert"}})

Idle(t) == pc[t] = "idle"

\* The request ids a client can pass: those of committed rows, which the
\* clients have been given, and a uuid that names no row.
RequestIds == {r \in DOMAIN requests : requests[r].xmin = 0} \cup {NoRequest}

call_create_request(t) ==
  /\ Idle(t)
  /\ \E b \in Users, p \in PropertyIds :
       call' = [call EXCEPT ![t] = [NoCall EXCEPT !.op = "create_request",
                                                  !.p_user = b, !.p_property = p]]
  /\ Goto(t, "cr_lock")
  /\ UNCHANGED <<properties, requests, property_history, v, result>>

call_cancel_request(t) ==
  /\ Idle(t)
  /\ \E r \in RequestIds, u \in Users :
       call' = [call EXCEPT ![t] = [NoCall EXCEPT !.op = "cancel_request",
                                                  !.p_user = u, !.p_request_id = r]]
  /\ Goto(t, "cn_lock")
  /\ UNCHANGED <<properties, requests, property_history, v, result>>

call_respond_to_request(t) ==
  /\ Idle(t)
  /\ \E r \in RequestIds, u \in Users, d \in request_status :
       call' = [call EXCEPT ![t] = [NoCall EXCEPT !.op = "respond_to_request",
                                                  !.p_user = u, !.p_request_id = r,
                                                  !.p_response = d]]
  /\ Goto(t, "rs_validate")
  /\ UNCHANGED <<properties, requests, property_history, v, result>>

\* The client has its answer; the connection is free for the next call.
rpc_done(t) ==
  /\ pc[t] = "done"
  /\ pc' = [pc EXCEPT ![t] = "idle"]
  /\ call' = [call EXCEPT ![t] = NoCall]
  /\ result' = [result EXCEPT ![t] = NoResult]
  /\ UNCHANGED <<properties, requests, property_history, v>>

\* --------------------------------------------------------- create_request
\* Faulty variant: the SELECT without FOR UPDATE, a plain read of the committed row.
create_request_lock_plain(t) ==
  /\ pc[t] = "cr_lock"
  /\ LET p == call[t].p_property IN
       IF p \in DOMAIN properties
       THEN v' = [v EXCEPT ![t] = [NoLocals EXCEPT
                                     !.found = TRUE,
                                     !.v_status = properties[p].status,
                                     !.v_seller_id = properties[p].seller_id]]
       ELSE v' = [v EXCEPT ![t] = NoLocals]
  /\ Goto(t, "cr_check")
  /\ UNCHANGED <<properties, requests, property_history, call, result>>

\* Step 1: SELECT status, seller_id ... FROM properties WHERE id = p_property
\* FOR UPDATE.  Waits while another transaction holds the row lock.
create_request_lock(t) ==
  /\ pc[t] = "cr_lock"
  /\ LET p == call[t].p_property IN
       IF p \in DOMAIN properties
       THEN /\ LockFree(properties[p], t)
            /\ properties' = [properties EXCEPT ![p].xmax = t]
            /\ v' = [v EXCEPT ![t] = [NoLocals EXCEPT
                                        !.found = TRUE,
                                        !.v_status = properties[p].status,
                                        !.v_seller_id = properties[p].seller_id]]
       ELSE /\ v' = [v EXCEPT ![t] = NoLocals]
            /\ UNCHANGED properties
  /\ Goto(t, "cr_check")
  /\ UNCHANGED <<requests, property_history, call, result>>

\* Faulty variant: the "status is available" check of create_request is missing.
create_request_check_any_status(t) ==
  /\ pc[t] = "cr_check"
  /\ IF ~v[t].found
     THEN Raise(t, P0002)
     ELSE IF v[t].v_seller_id = call[t].p_user
     THEN Raise(t, P0003)
     ELSE /\ Goto(t, "cr_insert")
          /\ UNCHANGED <<properties, requests, property_history, call, v, result>>

\* Steps 2-4: the three IF ... RAISE EXCEPTION checks, in their order.
create_request_check(t) ==
  /\ pc[t] = "cr_check"
  /\ IF ~v[t].found
     THEN Raise(t, P0002)
     ELSE IF v[t].v_status # "available"
     THEN Raise(t, P0001)
     ELSE IF v[t].v_seller_id = call[t].p_user
     THEN Raise(t, P0003)
     ELSE /\ Goto(t, "cr_insert")
          /\ UNCHANGED <<properties, requests, property_history, call, v, result>>

\* Faulty variant: the unique index is not partial, it covers every status.
PendingOf_any_status(b) == {r \in DOMAIN requests : requests[r].buyer_id = b}

\* Faulty variant: a check against the committed rows only (a SELECT before
\* the INSERT in place of the index).
PendingOf_snapshot(b) ==
  {r \in DOMAIN requests : /\ requests[r].buyer_id = b
                           /\ requests[r].status = "pending"
                           /\ requests[r].xmin = 0}

\* Faulty variant: the partial unique index is missing, nothing conflicts.
PendingOf_unindexed(b) == {}

\* idx_requests_buyer_pending_unique: the rows that conflict with a new
\* pending request of buyer b.
PendingOf(b) ==
  {r \in DOMAIN requests : requests[r].buyer_id = b /\ requests[r].status = "pending"}

\* A conflicting row whose fate is open: inserted, or being updated, by a
\* transaction still running.  The insert waits for that transaction.
InDoubt(b, t) ==
  {r \in PendingOf(b) :
     \/ requests[r].xmin \notin {0, t}
     \/ requests[r].xmax \notin {0, t} /\ requests[r].upd # None}

\* gen_random_uuid(): an id that no row carries and no client has passed.
NewRequestId ==
  LET used == DOMAIN requests \cup {call[t].p_request_id : t \in DOMAIN pc}
  IN 1 + CHOOSE m \in used : \A r \in used : r <= m

\* Step 5: INSERT INTO requests ... RETURNING id, under the partial unique
\* index; the handler re-raises unique_violation as 23505.
create_request_insert(t) ==
  /\ pc[t] = "cr_insert"
  /\ LET b == call[t].p_user
         p == call[t].p_property
         id == NewRequestId
     IN /\ InDoubt(b, t) = {}
        /\ IF PendingOf(b) # {}
           THEN Raise(t, unique_violation)
           ELSE /\ requests' = [r \in DOMAIN requests \cup {id} |->
                                  IF r = id
                                  THEN [buyer_id |-> b, property_id |-> p,
                                        seller_id |-> v[t].v_seller_id,
                                        status |-> "pending",
                                        xmin |-> t, xmax |-> 0, upd |-> None]
                                  ELSE requests[r]]
                /\ v' = [v EXCEPT ![t].v_request_id = id]
                /\ Goto(t, "cr_update")
                /\ UNCHANGED <<properties, property_history, call, result>>

\* Step 6: UPDATE properties SET status = 'requested' WHERE id = p_property.
create_request_update(t) ==
  /\ pc[t] = "cr_update"
  /\ LET p == call[t].p_property IN
       /\ LockFree(properties[p], t)
       /\ properties' = [properties EXCEPT ![p].xmax = t, ![p].upd = "requested"]
  /\ Goto(t, "cr_history")
  /\ UNCHANGED <<requests, property_history, call, v, result>>

\* Step 7: INSERT INTO property_history.
create_request_history(t) ==
  /\ pc[t] = "cr_history"
  /\ property_history' = Append(property_history,
        [property_id |-> call[t].p_property, user_id |-> call[t].p_user,
         action |-> "request_created", old_status |-> "available",
         new_status |-> "requested", request_id |-> v[t].v_request_id,
         xmin |-> t])
  /\ Goto(t, "cr_return")
  /\ UNCHANGED <<properties, requests, call, v, result>>

\* Step 8: RETURN v_request_id.
create_request_return(t) ==
  /\ pc[t] = "cr_return"
  /\ Return(t, v[t].v_request_id)

\* --------------------------------------------------------- cancel_request
\* Faulty variant: the SELECT without FOR UPDATE, a plain read of the row.
cancel_request_lock_plain(t) ==
  /\ pc[t] = "cn_lock"
  /\ LET r == call[t].p_request_id IN
       IF Visible(r)
       THEN v' = [v EXCEPT ![t] = [NoLocals EXCEPT
                                     !.found = TRUE,
                                     !.v_buyer_id = requests[r].buyer_id,
                                     !.v_property_id = requests[r].property_id,
                                     !.v_status = requests[r].status]]
       ELSE v' = [v EXCEPT ![t] = NoLocals]
  /\ Goto(t, "cn_check")
  /\ UNCHANGED <<properties, requests, property_history, call, result>>

\* SELECT buyer_id, property_id, status ... FROM requests WHERE id =
\* p_request_id FOR UPDATE.
cancel_request_lock(t) ==
  /\ pc[t] = "cn_lock"
  /\ LET r == call[t].p_request_id IN
       IF Visible(r)
       THEN /\ LockFree(requests[r], t)
            /\ requests' = [requests EXCEPT ![r].xmax = t]
            /\ v' = [v EXCEPT ![t] = [NoLocals EXCEPT
                                        !.found = TRUE,
                                        !.v_buyer_id = requests[r].buyer_id,
                                        !.v_property_id = requests[r].property_id,
                                        !.v_status = requests[r].status]]
       ELSE /\ v' = [v EXCEPT ![t] = NoLocals]
            /\ UNCHANGED requests
  /\ Goto(t, "cn_check")
  /\ UNCHANGED <<properties, property_history, call, result>>

\* Faulty variant: the "still pending" check of cancel_request is missing.
cancel_request_check_any_status(t) ==
  /\ pc[t] = "cn_check"
  /\ IF ~v[t].found
     THEN Raise(t, P0002)
     ELSE IF v[t].v_buyer_id # call[t].p_user
     THEN Raise(t, P0004)
     ELSE /\ Goto(t, "cn_update_request")
          /\ UNCHANGED <<properties, requests, property_history, call, v, result>>

\* Faulty variant: the "user is the buyer" check of cancel_request is missing.
cancel_request_check_any_user(t) ==
  /\ pc[t] = "cn_check"
  /\ IF ~v[t].found
     THEN Raise(t, P0002)
     ELSE IF v[t].v_status # "pending"
     THEN Raise(t, P0001)
     ELSE /\ Goto(t, "cn_update_request")
          /\ UNCHANGED <<properties, requests, property_history, call, v, result>>

cancel_request_check(t) ==
  /\ pc[t] = "cn_check"
  /\ IF ~v[t].found
     THEN Raise(t, P0002)
     ELSE IF v[t].v_buyer_id # call[t].p_user
     THEN Raise(t, P0004)
     ELSE IF v[t].v_status # "pending"
     THEN Raise(t, P0001)
     ELSE /\ Goto(t, "cn_update_request")
          /\ UNCHANGED <<properties, requests, property_history, call, v, result>>

\* UPDATE requests SET status = 'cancelled' WHERE id = p_request_id.
cancel_request_update_request(t) ==
  /\ pc[t] = "cn_update_request"
  /\ LET r == call[t].p_request_id IN
       /\ LockFree(requests[r], t)
       /\ requests' = [requests EXCEPT ![r].xmax = t, ![r].upd = "cancelled"]
  /\ Goto(t, "cn_update_property")
  /\ UNCHANGED <<properties, property_history, call, v, result>>

\* UPDATE properties SET status = 'available' WHERE id = v_property_id.
cancel_request_update_property(t) ==
  /\ pc[t] = "cn_update_property"
  /\ LET p == v[t].v_property_id IN
       /\ LockFree(properties[p], t)
       /\ properties' = [properties EXCEPT ![p].xmax = t, ![p].upd = "available"]
  /\ Goto(t, "cn_return")
  /\ UNCHANGED <<requests, property_history, call, v, result>>

\* RETURN true.
cancel_request_return(t) ==
  /\ pc[t] = "cn_return"
  /\ Return(t, 1)

\* ----------------------------------------------------- respond_to_request
\* Faulty variant: p_response is not validated.
respond_to_request_validate_none(t) ==
  /\ pc[t] = "rs_validate"
  /\ Goto(t, "rs_lock")
  /\ UNCHANGED <<properties, requests, property_history, call, v, result>>

\* IF p_response NOT IN ('accepted', 'declined') THEN RAISE ... P0005.
respond_to_request_validate(t) ==
  /\ pc[t] = "rs_validate"
  /\ IF call[t].p_response \notin {"accepted", "declined"}
     THEN Raise(t, P0005)
     ELSE /\ Goto(t, "rs_lock")
          /\ UNCHANGED <<properties, requests, property_history, call, v, result>>

\* SELECT seller_id, property_id, status ... FROM requests WHERE id =
\* p_request_id FOR UPDATE.
respond_to_request_lock(t) ==
  /\ pc[t] = "rs_lock"
  /\ LET r == call[t].p_request_id IN
       IF Visible(r)
       THEN /\ LockFree(requests[r], t)
            /\ requests' = [requests EXCEPT ![r].xmax = t]
            /\ v' = [v EXCEPT ![t] = [NoLocals EXCEPT
                                        !.found = TRUE,
                                        !.v_seller_id = requests[r].seller_id,
                                        !.v_property_id = requests[r].property_id,
                                        !.v_status = requests[r].status]]
       ELSE /\ v' = [v EXCEPT ![t] = NoLocals]
            /\ UNCHANGED requests
  /\ Goto(t, "rs_check")
  /\ UNCHANGED <<properties, property_history, call, result>>

\* Faulty variant: the "still pending" check of respond_to_request is missing.
respond_to_request_check_any_status(t) ==
  /\ pc[t] = "rs_check"
  /\ IF ~v[t].found
     THEN Raise(t, P0002)
     ELSE IF v[t].v_seller_id # call[t].p_user
     THEN Raise(t, P0004)
     ELSE /\ Goto(t, "rs_update_request")
          /\ UNCHANGED <<properties, requests, property_history, call, v, result>>

respond_to_request_check(t) ==
  /\ pc[t] = "rs_check"
  /\ IF ~v[t].found
     THEN Raise(t, P0002)
     ELSE IF v[t].v_seller_id # call[t].p_user
     THEN Raise(t, P0004)
     ELSE IF v[t].v_status # "pending"
     THEN Raise(t, P0001)
     ELSE /\ Goto(t, "rs_update_request")
          /\ UNCHANGED <<properties, requests, property_history, call, v, result>>

\* UPDATE requests SET status = p_response WHERE id = p_request_id.
respond_to_request_update_request(t) ==
  /\ pc[t] = "rs_update_request"
  /\ LET r == call[t].p_request_id IN
       /\ LockFree(requests[r], t)
       /\ requests' = [requests EXCEPT ![r].xmax = t, ![r].upd = call[t].p_response]
  /\ Goto(t, "rs_update_property")
  /\ UNCHANGED <<properties, property_history, call, v, result>>

\* IF p_response = 'accepted' THEN UPDATE properties SET status = 'sold'
\* ELSIF p_response = 'declined' THEN UPDATE properties SET status = 'available'.
respond_to_request_update_property(t) ==
  /\ pc[t] = "rs_update_property"
  /\ LET p == v[t].v_property_id
         s == IF call[t].p_response = "accepted" THEN "sold" ELSE "available"
     IN /\ LockFree(properties[p], t)
        /\ properties' = [properties EXCEPT ![p].xmax = t, ![p].upd = s]
  /\ Goto(t, "rs_return")
  /\ UNCHANGED <<requests, property_history, call, v, result>>

\* RETURN true.
respond_to_request_return(t) ==
  /\ pc[t] = "rs_return"
  /\ Return(t, 1)

\* ------------------------------------------------------------ the system
NoPush == [pc |-> "idle", token |-> None, attempt |-> 0, waits |-> <<>>,
           log |-> <<>>, result |-> None]

\* The notification path at rest.  The trigger on requests writes none of
\* the tables of the engine; Spec, SpecOnce, SpecClients and SpecOwners
\* leave it out, SpecNotify runs it.
Quiet == http_request_queue = <<>> /\ invocations = <<>> /\ push = NoPush

\* No call of the request API made yet.
NoApi == [pc |-> "idle", fn |-> None, outcome |-> None, result |-> None]

\* PropertyDetailsScreen as mounted: useState(true) for isOnline, no modal,
\* no dialog, the mutation idle, no RPC sent.
NoScreen == [isOnline |-> TRUE, showRequestModal |-> FALSE, dialog |-> None,
             isPending |-> FALSE, rpcs |-> <<>>]

\* The client left out: the engine is driven through its RPCs directly.
Headless == api = NoApi /\ screen = NoScreen

Database ==
  /\ properties = [p \in Properties |->
                     [status |-> "available", seller_id |-> seller_id[p],
                      xmax |-> 0, upd |-> None]]
  /\ requests = <<>>
  /\ property_history = <<>>

Connections(T) ==
  /\ pc = [t \in T |-> "idle"]
  /\ call = [t \in T |-> NoCall]
  /\ v = [t \in T |-> NoLocals]
  /\ result = [t \in T |-> NoResult]

\* One statement of the function the connection t is running.
Statement(t) ==
  \/ create_request_lock(t)
  \/ create_request_check(t)
  \/ create_request_insert(t)
  \/ create_request_update(t)
  \/ create_request_history(t)
  \/ create_request_return(t)
  \/ cancel_request_lock(t)
  \/ cancel_request_check(t)
  \/ cancel_request_update_request(t)
  \/ cancel_request_update_property(t)
  \/ cancel_request_return(t)
  \/ respond_to_request_validate(t)
  \/ respond_to_request_lock(t)
  \/ respond_to_request_check(t)
  \/ respond_to_request_update_request(t)
  \/ respond_to_request_update_property(t)
  \/ respond_to_request_return(t)

Rpc(t) ==
  \/ call_create_request(t)
  \/ call_cancel_request(t)
  \/ call_respond_to_request(t)

\* NumTxns connections, each issuing one RPC after another.
Init == Database /\ Connections(Txns) /\ Quiet /\ Headless

\* The table of requests is kept within MaxRequests rows.
Next ==
  /\ \E t \in Txns :
       \/ Allocated < MaxRequests /\ call_create_request(t)
       \/ call_cancel_request(t)
       \/ call_respond_to_request(t)
       \/ Statement(t)
       \/ rpc_done(t)
  /\ UNCHANGED <<http_request_queue, invocations, push, api, screen>>

Spec == Init /\ [][Next]_vars

\* NumCalls RPCs, each on a connection of its own that keeps its answer.
\* The connections are numbered in the order the calls are issued.
InitOnce == Database /\ Connections(Calls) /\ Quiet /\ Headless

NextOnce ==
  /\ \E t \in Calls :
       \/ (\A u \in Calls : u < t => pc[u] # "idle") /\ Rpc(t)
       \/ Statement(t)
  /\ UNCHANGED <<http_request_queue, invocations, push, api, screen>>

SpecOnce == InitOnce /\ [][NextOnce]_vars

\* The same calls on a server that keeps running: while some transaction
\* can execute its next statement, one of them eventually does.
Runs(t) ==
  /\ Statement(t)
  /\ UNCHANGED <<http_request_queue, invocations, push, api, screen>>

SpecFair ==
  /\ InitOnce
  /\ [][NextOnce]_vars
  /\ WF_vars(\E t \in Calls : Runs(t))

\* ------------------------------------------------------- direct row writes
\* mobile/App.tsx updateProperty: UPDATE properties SET ... WHERE id = p, sent
\* by the client under the policy "Property owners can update own
\* properties" (USING auth.uid() = seller_id).  One statement in a
\* transaction of its own; it waits while the row is locked.
updateProperty(u, p, s) ==
  /\ properties[p].seller_id = u
  /\ properties[p].xmax = 0
  /\ properties[p].status # s
  /\ properties' = [properties EXCEPT ![p].status = s]
  /\ UNCHANGED <<requests, property_history, pc, call, v, result>>
  /\ UNCHANGED <<http_request_queue, invocations, push, api, screen>>

\* UPDATE requests SET status = s, property_id = p WHERE id = r, sent by a
\* client under the policy "Buyers can update own pending requests": USING
\* (auth.uid() = buyer_id AND status = 'pending'), WITH CHECK (auth.uid() =
\* buyer_id AND status IN ('pending', 'cancelled')).  The policy constrains
\* no other column; property_id must name a row of properties (foreign key).
buyer_update_request(u, r, s, p) ==
  /\ Visible(r)
  /\ requests[r].xmax = 0
  /\ requests[r].buyer_id = u /\ requests[r].status = "pending"
  /\ s \in {"pending", "cancelled"}
  /\ <<s, p>> # <<requests[r].status, requests[r].property_id>>
  /\ requests' = [requests EXCEPT ![r].status = s, ![r].property_id = p]
  /\ UNCHANGED <<properties, property_history, pc, call, v, result>>
  /\ UNCHANGED <<http_request_queue, invocations, push, api, screen>>

\* UPDATE requests SET status = s WHERE id = r under the policy "Sellers can
\* respond to requests": USING (auth.uid() = seller_id AND status =
\* 'pending'), WITH CHECK (auth.uid() = seller_id AND status IN ('pending',
\* 'accepted', 'declined')).
seller_update_request(u, r, s) ==
  /\ Visible(r)
  /\ requests[r].xmax = 0
  /\ requests[r].seller_id = u /\ requests[r].status = "pending"
  /\ s \in {"accepted", "declined"}
  /\ requests' = [requests EXCEPT ![r].status = s]
  /\ UNCHANGED <<properties, property_history, pc, call, v, result>>
  /\ UNCHANGED <<http_request_queue, invocations, push, api, screen>>

\* NumSessions RPCs as in SpecOnce, next to clients writing the rows the
\* row-level-security policies let them write.
InitClients == Database /\ Connections(Sessions) /\ Quiet /\ Headless

NextClients ==
  \/ /\ \E t \in Sessions :
          \/ (\A u \in Sessions : u < t => pc[u] # "idle") /\ Rpc(t)
          \/ Statement(t)
     /\ UNCHANGED <<http_request_queue, invocations, push, api, screen>>
  \/ \E u \in Users, p \in Properties, s \in property_status : updateProperty(u, p, s)
  \/ \E u \in Users, r \in DOMAIN requests, s \in request_status, p \in Properties :
       buyer_update_request(u, r, s, p)
  \/ \E u \in Users, r \in DOMAIN requests, s \in request_status :
       seller_update_request(u, r, s)

SpecClients == InitClients /\ [][NextClients]_vars

\* NumSerial RPCs issued one after the other, each when the one before has
\* returned; between two RPCs an owner may update a property of their own
\* ("Owner can update own properties").
InitSerial == Database /\ Connections(Serial) /\ Quiet /\ Headless

NextSerial ==
  \/ /\ \E t \in Serial :
          \/ /\ \A u \in Serial : u < t => pc[u] = "done"
             /\ Rpc(t)
          \/ Statement(t)
     /\ UNCHANGED <<http_request_queue, invocations, push, api, screen>>
  \/ /\ \A t \in Serial : pc[t] \in {"idle", "done"}
     /\ \E u \in Users, p \in Properties, s \in property_status : updateProperty(u, p, s)

SpecSerial == InitSerial /\ [][NextSerial]_vars

\* mobile/App.tsx deleteProperty: DELETE FROM properties WHERE id = p, sent
\* by the client under the policy "Property owners can delete own
\* properties" (USING auth.uid() = seller_id).  requests.property_id and
\* property_history.property_id reference properties(id) ON DELETE CASCADE:
\* the rows of the property go with it.  The statement waits while the
\* property row or one of those rows is locked.
deleteProperty(u, p) ==
  /\ p \in DOMAIN properties
  /\ properties[p].seller_id = u
  /\ properties[p].xmax = 0
  /\ \A r \in DOMAIN requests :
       requests[r].property_id = p => requests[r].xmin = 0 /\ requests[r].xmax = 0
  /\ properties' = [q \in DOMAIN properties \ {p} |-> properties[q]]
  /\ requests' = [r \in {x \in DOMAIN requests : requests[x].property_id # p} |->
                    requests[r]]
  /\ property_history' = SelectSeq(property_history, LAMBDA h : h.property_id # p)
  /\ UNCHANGED <<pc, call, v, result, http_request_queue, invocations, push,
                 api, screen>>

\* NumSessions RPCs as in SpecOnce, next to owners deleting their listings.
InitOwners == Database /\ Connections(Sessions) /\ Quiet /\ Headless

NextOwners ==
  \/ /\ \E t \in Sessions :
          \/ (\A u \in Sessions : u < t => pc[u] # "idle") /\ Rpc(t)
          \/ Statement(t)
     /\ UNCHANGED <<http_request_queue, invocations, push, api, screen>>
  \/ \E u \in Users, p \in Properties : deleteProperty(u, p)

SpecOwners == InitOwners /\ [][NextOwners]_vars

\* ----------------------------------------------------------- notification
\* Faulty variant: the request is sent at once, not with the transaction.
http_post_now(id, t) ==
  Append(http_request_queue, [request_id |-> id, xmin |-> 0])

\* PERFORM net.http_post(url, headers, body): pg_net inserts the request
\* into its queue table in the calling transaction; the row commits or
\* rolls back with it.
http_post(id, t) ==
  Append(http_request_queue, [request_id |-> id, xmin |-> t])

CommitQueue(t) ==
  [i \in DOMAIN http_request_queue |->
     IF http_request_queue[i].xmin = t
     THEN [http_request_queue[i] EXCEPT !.xmin = 0]
     ELSE http_request_queue[i]]

RollbackQueue(t) ==
  SelectSeq(http_request_queue, LAMBDA q : q.xmin # t)

\* The queue after a statement of t: as it was, or committed or rolled back
\* with the transaction when the statement ended it.
QueueAfter(t) ==
  IF pc'[t] # "done" THEN http_request_queue
  ELSE IF result'[t].sqlstate = Success THEN CommitQueue(t)
  ELSE RollbackQueue(t)

\* Faulty variant: the function has no EXCEPTION block, an error of
\* net.http_post leaves the trigger.
notify_seller_on_new_request_unhandled(status, raised) ==
  IF status # "pending" THEN [enqueue |-> FALSE, error |-> FALSE]
  ELSE IF raised THEN [enqueue |-> FALSE, error |-> TRUE]
  ELSE [enqueue |-> TRUE, error |-> FALSE]

\* The trigger function, run AFTER INSERT ON requests FOR EACH ROW with
\* NEW.status = status; raised says whether net.http_post raised.  What it
\* leaves: a request in the queue or not, an error for the INSERT or not.
\* EXCEPTION WHEN OTHERS undoes what the block did, warns and RETURNs NEW.
notify_seller_on_new_request(status, raised) ==
  IF status # "pending" THEN [enqueue |-> FALSE, error |-> FALSE]
  ELSE IF raised THEN [enqueue |-> FALSE, error |-> FALSE]
  ELSE [enqueue |-> TRUE, error |-> FALSE]

\* Step 5 of create_request with trigger_request_notification: the INSERT
\* fires the trigger for the row it inserted.
insert_requests(t) ==
  /\ pc[t] = "cr_insert"
  /\ \E raised \in BOOLEAN :
       LET b == call[t].p_user
           ran == notify_seller_on_new_request("pending", raised)
       IN IF ran.error /\ InDoubt(b, t) = {} /\ PendingOf(b) = {}
          THEN /\ Raise(t, "XX000")
               /\ http_request_queue' = RollbackQueue(t)
          ELSE /\ create_request_insert(t)
               /\ http_request_queue' =
                    IF pc'[t] = "cr_update" /\ ran.enqueue
                    THEN http_post(v'[t].v_request_id, t)
                    ELSE QueueAfter(t)
  /\ UNCHANGED <<invocations, push, api, screen>>

\* What the seller's profile holds as expo_push_token.
Tokens == {"null", "invalid", "valid"}

\* Deno.serve handler of send-request-push for a POST with a request_id:
\* found says whether fetchRequestDetails got the row, token is the
\* seller's expo_push_token, sent is result.success of
\* sendExpoPushNotification.
serve(found, token, sent) ==
  IF ~found THEN [status |-> 404, success |-> FALSE]
  ELSE IF token = "null" THEN [status |-> 200, success |-> FALSE]
  ELSE IF token = "invalid" THEN [status |-> 400, success |-> FALSE]
  ELSE IF sent THEN [status |-> 200, success |-> TRUE]
  ELSE [status |-> 500, success |-> FALSE]

\* The background worker of pg_net: takes a committed request off the queue
\* and posts it to the edge function; the response is stored, nobody waits
\* for it.
http_worker ==
  /\ \E i \in DOMAIN http_request_queue, token \in Tokens, sent \in BOOLEAN :
       LET id == http_request_queue[i].request_id IN
         /\ http_request_queue[i].xmin = 0
         /\ invocations' = Append(invocations,
                                  [request_id |-> id] @@ serve(Visible(id), token, sent))
         /\ http_request_queue' =
              [j \in 1..(Len(http_request_queue) - 1) |->
                 IF j < i THEN http_request_queue[j] ELSE http_request_queue[j + 1]]
  /\ UNCHANGED <<properties, requests, property_history, pc, call, v, result, push, api, screen>>

\* NumSessions RPCs as in SpecOnce, with the trigger on requests and the
\* worker that delivers what the trigger queued.
InitNotify == Database /\ Connections(Sessions) /\ Quiet /\ Headless

NextNotify ==
  \/ \E t \in Sessions :
       /\ \A u \in Sessions : u < t => pc[u] # "idle"
       /\ Rpc(t)
       /\ UNCHANGED <<http_request_queue, invocations, push, api, screen>>
  \/ \E t \in Sessions : insert_requests(t)
  \/ \E t \in Sessions :
       /\ pc[t] # "cr_insert"
       /\ Statement(t)
       /\ http_request_queue' = QueueAfter(t)
       /\ UNCHANGED <<invocations, push, api, screen>>
  \/ http_worker

SpecNotify == InitNotify /\ [][NextNotify]_vars

\* ------------------------------------------------ sendExpoPushNotification
MAX_RETRIES == 3
RETRY_DELAY_MS == 1000

\* What one fetch of the Expo push API can end in: an exception of fetch
\* (the network), a status that is not ok, or a 200 whose body is not JSON
\* or whose first push ticket is ok, is an error, or is missing.
Responses ==
  {[kind |-> "exception", status |-> 0, ticket |-> None]}
  \cup {[kind |-> "http", status |-> c, ticket |-> None] : c \in {400, 429, 500, 503}}
  \cup {[kind |-> "http", status |-> 200, ticket |-> k] :
          k \in {"ok", "error", None, "not_json"}}

\* The try block throws: fetch did, or response.json() on a body that does
\* not parse.
throws(response) ==
  \/ response.kind = "exception"
  \/ response.status \in 200..299 /\ response.ticket = "not_json"

ok(response) == response.status \in 200..299

\* The handler finds no token, or one that isValidExpoPushToken rejects: it
\* answers without calling sendExpoPushNotification.
push_skip(token) ==
  /\ push.pc = "idle"
  /\ token \in {"null", "invalid"}
  /\ push' = [push EXCEPT !.pc = "done", !.token = token, !.result = FALSE]
  /\ UNCHANGED <<properties, requests, property_history, pc, call, v, result,
                 http_request_queue, invocations, api, screen>>

\* The handler calls sendExpoPushNotification(pushMessage): attempt = 1.
push_call ==
  /\ push.pc = "idle"
  /\ push' = [push EXCEPT !.pc = "fetch", !.token = "valid", !.attempt = 1]
  /\ UNCHANGED <<properties, requests, property_history, pc, call, v, result,
                 http_request_queue, invocations, api, screen>>

\* await fetch(EXPO_PUSH_API, ...) and what the function does with the
\* response: return a result, or go on to wait for the next attempt.
push_fetch(response) ==
  /\ push.pc = "fetch"
  /\ LET attempt == push.attempt
         logged == [push EXCEPT !.log = Append(push.log, response)]
         return(success) == [logged EXCEPT !.pc = "done", !.result = success]
         retry == [logged EXCEPT !.pc = "wait"]
     IN push' =
          IF throws(response)
          THEN IF attempt < MAX_RETRIES THEN retry ELSE return(FALSE)
          ELSE IF ~ok(response)
          THEN IF (response.status >= 500 \/ response.status = 429)
                  /\ attempt < MAX_RETRIES
               THEN retry
               ELSE return(FALSE)
          ELSE IF response.ticket = "error" THEN return(FALSE)
          ELSE IF response.ticket = "ok" THEN return(TRUE)
          ELSE return(FALSE)
  /\ UNCHANGED <<properties, requests, property_history, pc, call, v, result,
                 http_request_queue, invocations, api, screen>>

\* Faulty variant: the same delay before every attempt.
push_wait_flat ==
  /\ push.pc = "wait"
  /\ push' = [push EXCEPT !.pc = "fetch",
                          !.waits = Append(push.waits, RETRY_DELAY_MS),
                          !.attempt = push.attempt + 1]
  /\ UNCHANGED <<properties, requests, property_history, pc, call, v, result,
                 http_request_queue, invocations, api, screen>>

\* await new Promise(resolve => setTimeout(resolve, RETRY_DELAY_MS *
\* attempt)); return sendExpoPushNotification(message, attempt + 1).
push_wait ==
  /\ push.pc = "wait"
  /\ push' = [push EXCEPT !.pc = "fetch",
                          !.waits = Append(push.waits, RETRY_DELAY_MS * push.attempt),
                          !.attempt = push.attempt + 1]
  /\ UNCHANGED <<properties, requests, property_history, pc, call, v, result,
                 http_request_queue, invocations, api, screen>>

\* One call of sendExpoPushNotification against a push service that answers
\* every fetch, with any of Responses.
InitPush == Database /\ Connections({}) /\ Quiet /\ Headless

NextPush ==
  \/ \E token \in Tokens : push_skip(token)
  \/ push_call
  \/ \E response \in Responses : push_fetch(response)
  \/ push_wait

SpecPush == InitPush /\ [][NextPush]_vars /\ WF_vars(NextPush)

\* ----------------------------------------------------------- request API
\* A message is the sequence of its pieces, cut so that every occurrence of
\* "network" and of "fetch" is a piece of its own; the empty message is <<>>.
includes(message, word) == \E i \in DOMAIN message : message[i] = word

\* The errors the stored functions raise: what the client sees of each RAISE
\* EXCEPTION ... USING ERRCODE.
EngineErrors(fn) ==
  IF fn = "createRequest"
  THEN {[raised |-> "NotFound", code |-> P0002,
         message |-> <<"Property not found">>],
        [raised |-> "PropertyNotAvailable", code |-> P0001,
         message |-> <<"Property is not available (current status: %)">>],
        [raised |-> "SelfRequestForbidden", code |-> P0003,
         message |-> <<"Sellers cannot request their own properties">>],
        [raised |-> "DuplicatePendingRequest", code |-> unique_violation,
         message |-> <<"Buyer has an active pending request. Please wait for the current request to be processed.">>]}
  ELSE {[raised |-> "NotFound", code |-> P0002,
         message |-> <<"Request not found">>],
        [raised |-> "Forbidden", code |-> P0004,
         message |-> <<"Only the buyer can cancel their request">>],
        [raised |-> "InvalidStateTransition", code |-> P0001,
         message |-> <<"Only pending requests can be cancelled (current status: %)">>]}

\* Errors that are not the engine's: of PostgREST, of the transport.
Codes == {P0001, P0002, P0003, P0004, P0005, unique_violation, "PGRST301", ""}
Messages ==
  {<<>>,
   <<"JWT expired">>,
   <<"TypeError: Network request failed">>,
   <<"TypeError: Failed to ", "fetch">>,
   <<"A ", "network", " error occurred">>}
  \cup {e.message : e \in EngineErrors("createRequest") \cup EngineErrors("cancelRequest")}

\* What await supabase.rpc(...) gives the function: { data }, { error }, or
\* an exception.
Outcomes(fn) ==
  {[kind |-> "data", raised |-> None, code |-> "", message |-> <<>>, data |-> d] :
     d \in IF fn = "createRequest" THEN 1..MaxRequests ELSE {TRUE}}
  \cup {[kind |-> "error", raised |-> e.raised, code |-> e.code, message |-> e.message,
         data |-> None] : e \in EngineErrors(fn)}
  \cup {[kind |-> "error", raised |-> None, code |-> c, message |-> m, data |-> None] :
          c \in Codes, m \in Messages}
  \cup {[kind |-> "thrown", raised |-> None, code |-> "", message |-> m, data |-> None] :
          m \in Messages}

Returned(data) == [kind |-> "returned", name |-> None, message |-> <<>>, data |-> data]
Thrown(name, message) == [kind |-> "thrown", name |-> name, message |-> message, data |-> None]

\* error.message || fallback
OrElse(message, fallback) == IF message = <<>> THEN <<fallback>> ELSE message

\* The catch block of createRequest.
createRequest_catch(error) ==
  IF error.name \in {"PropertyNotAvailableError", "ActivePendingRequestError", "NetworkError"}
  THEN error
  ELSE IF includes(error.message, "network") \/ includes(error.message, "fetch")
  THEN Thrown("NetworkError", error.message)
  ELSE Thrown("Error", OrElse(error.message, "Failed to create request"))

\* Faulty variant: the test of error.code === '23505' is missing.
createRequest_unmapped(outcome) ==
  IF outcome.kind = "thrown"
  THEN createRequest_catch(Thrown("Error", outcome.message))
  ELSE IF outcome.kind = "error"
  THEN createRequest_catch(
         IF outcome.code = P0001
         THEN Thrown("PropertyNotAvailableError", <<"Property is no longer available">>)
         ELSE IF includes(outcome.message, "network") \/ includes(outcome.message, "fetch")
         THEN Thrown("NetworkError", outcome.message)
         ELSE Thrown("Error", OrElse(outcome.message, "Failed to create request")))
  ELSE Returned(outcome.data)

\* createRequest(params) for the outcome of supabase.rpc('create_request'):
\* what it returns or throws.  Whatever the try block throws, the catch
\* block of the same function gets.
createRequest(outcome) ==
  IF outcome.kind = "thrown"
  THEN createRequest_catch(Thrown("Error", outcome.message))
  ELSE IF outcome.kind = "error"
  THEN createRequest_catch(
         IF outcome.code = P0001
         THEN Thrown("PropertyNotAvailableError", <<"Property is no longer available">>)
         ELSE IF outcome.code = unique_violation
         THEN Thrown("ActivePendingRequestError",
                     <<"You have an active pending request. Please wait for it to be processed.">>)
         ELSE IF includes(outcome.message, "network") \/ includes(outcome.message, "fetch")
         THEN Thrown("NetworkError", outcome.message)
         ELSE Thrown("Error", OrElse(outcome.message, "Failed to create request")))
  ELSE Returned(outcome.data)

\* cancelRequest(requestId, userId) for the outcome of
\* supabase.rpc('cancel_request').
cancelRequest(outcome) ==
  IF outcome.kind = "data"
  THEN Returned(outcome.data)
  ELSE Thrown("Error", OrElse(OrElse(outcome.message, "Failed to cancel request"),
                              "Failed to cancel request"))

api_createRequest(outcome) ==
  /\ api.pc = "idle"
  /\ api' = [pc |-> "done", fn |-> "createRequest", outcome |-> outcome,
             result |-> createRequest(outcome)]
  /\ UNCHANGED <<properties, requests, property_history, pc, call, v, result,
                 http_request_queue, invocations, push, screen>>

api_cancelRequest(outcome) ==
  /\ api.pc = "idle"
  /\ api' = [pc |-> "done", fn |-> "cancelRequest", outcome |-> outcome,
             result |-> cancelRequest(outcome)]
  /\ UNCHANGED <<properties, requests, property_history, pc, call, v, result,
                 http_request_queue, invocations, push, screen>>

\* One call of the request API, for every outcome of its RPC.
InitApi == Database /\ Connections({}) /\ Quiet /\ Headless

NextApi ==
  \/ \E outcome \in Outcomes("createRequest") : api_createRequest(outcome)
  \/ \E outcome \in Outcomes("cancelRequest") : api_cancelRequest(outcome)

SpecApi == InitApi /\ [][NextApi]_vars

\* ------------------------------------------------- PropertyDetailsScreen
\* Everything but the screen.
offscreen == <<properties, requests, property_history, pc, call, v, result,
               http_request_queue, invocations, push, api>>

\* NetInfo.addEventListener: setIsOnline(state.isConnected ?? false).
setIsOnline(connected) ==
  /\ screen.isOnline # connected
  /\ screen' = [screen EXCEPT !.isOnline = connected]
  /\ UNCHANGED offscreen

\* requestMutation.mutate(): mutationFn calls createRequest, which sends the
\* create_request RPC.  rpcs keeps isOnline as it was at each RPC sent.
mutate(sc) ==
  [sc EXCEPT !.isPending = TRUE, !.rpcs = Append(sc.rpcs, sc.isOnline)]

\* The button "Request Property" (disabled while offline) of a buyer whose
\* profile is complete: the request modal opens.
handleRequestPress ==
  /\ screen.dialog = None /\ ~screen.showRequestModal
  /\ screen.isOnline
  /\ screen' = [screen EXCEPT !.showRequestModal = TRUE]
  /\ UNCHANGED offscreen

\* "Cancel" in the request modal, onRequestClose.
closeRequestModal ==
  /\ screen.dialog = None /\ screen.showRequestModal
  /\ screen' = [screen EXCEPT !.showRequestModal = FALSE]
  /\ UNCHANGED offscreen

\* "Send Request" in the request modal (disabled while the mutation is
\* pending).
handleSendRequest ==
  /\ screen.dialog = None /\ screen.showRequestModal /\ ~screen.isPending
  /\ Len(screen.rpcs) < MaxRpcs
  /\ screen' = IF ~screen.isOnline
               THEN [screen EXCEPT !.dialog = "Offline"]
               ELSE mutate(screen)
  /\ UNCHANGED offscreen

\* The mutation settles: onSuccess, or onError by the class of the error
\* createRequest has thrown.
requestMutation(outcome) ==
  /\ screen.isPending
  /\ LET r == createRequest(outcome)
         settled == [screen EXCEPT !.isPending = FALSE]
     IN screen' =
          IF r.kind = "returned"
          THEN [settled EXCEPT !.showRequestModal = FALSE, !.dialog = "Success"]
          ELSE IF r.name = "PropertyNotAvailableError"
          THEN [settled EXCEPT !.showRequestModal = FALSE, !.dialog = "Property Unavailable"]
          ELSE IF r.name = "ActivePendingRequestError"
          THEN [settled EXCEPT !.showRequestModal = FALSE]
          ELSE IF r.name = "NetworkError"
          THEN [settled EXCEPT !.dialog = "Network Error"]
          ELSE [settled EXCEPT !.dialog = "Error"]
  /\ UNCHANGED offscreen

\* "Retry" in the dialog Network Error: onPress: () => requestMutation.mutate().
retry ==
  /\ screen.dialog = "Network Error"
  /\ Len(screen.rpcs) < MaxRpcs
  /\ screen' = mutate([screen EXCEPT !.dialog = None])
  /\ UNCHANGED offscreen

\* Any other button of a dialog: it closes.
dismiss ==
  /\ screen.dialog # None
  /\ screen' = [screen EXCEPT !.dialog = None]
  /\ UNCHANGED offscreen

\* The screen of one buyer, the connectivity changing at any time, the RPC
\* ending in any of its outcomes; at most MaxRpcs RPCs are sent.
InitScreen == Database /\ Connections({}) /\ Quiet /\ Headless

NextScreen ==
  \/ \E connected \in BOOLEAN : setIsOnline(connected)
  \/ handleRequestPress
  \/ closeRequestModal
  \/ handleSendRequest
  \/ \E outcome \in Outcomes("createRequest") : requestMutation(outcome)
  \/ retry
  \/ dismiss

SpecScreen == InitScreen /\ [][NextScreen]_vars

\* ================================================================ claims
Conns == DOMAIN pc

\* What a snapshot shows: the committed rows and their committed statuses.
Committed == {r \in DOMAIN requests : requests[r].xmin = 0}
PendingCommitted == {r \in Committed : requests[r].status = "pending"}
Terminal == {"accepted", "declined", "cancelled"}

Done(t) == pc[t] = "done"
Is(t, op) == call[t].op = op
Finishes(t) == pc[t] \notin {"idle", "done"} /\ pc'[t] = "done"
Won(t) == result[t].sqlstate = Success
Fails(t) == Finishes(t) /\ result'[t].sqlstate # Success
Commits(t) == Finishes(t) /\ result'[t].sqlstate = Success

CommittedHistory == SelectSeq(property_history, LAMBDA h : h.xmin = 0)

\* The step shows no change to a reader of the committed rows.
SnapshotUnchanged ==
  /\ \A p \in Properties : properties'[p].status = properties[p].status
  /\ {r \in DOMAIN requests' : requests'[r].xmin = 0} = Committed
  /\ \A r \in Committed : requests'[r].status = requests[r].status
  /\ SelectSeq(property_history', LAMBDA h : h.xmin = 0) = CommittedHistory

\* After the step no lock, no written status and no inserted row of t is left.
NothingLeftOf(t) ==
  /\ \A p \in Properties : properties'[p].xmax # t
  /\ \A r \in DOMAIN requests' : requests'[r].xmin # t /\ requests'[r].xmax # t
  /\ \A i \in DOMAIN property_history' : property_history'[i].xmin # t

\* Every call issued so far has its answer.
AllDone == \A t \in Conns : pc[t] \in {"idle", "done"}
OnlyCreates == \A t \in Conns : call[t].op \in {None, "create_request"}
CreatesOn(p) == {t \in Conns : Done(t) /\ Is(t, "create_request") /\ call[t].p_property = p}

\* C1: in every reachable state each buyer owns at most one request whose
\* status is pending.
C1_OnePendingPerBuyer ==
  \A b \in Users :
    Cardinality({r \in PendingCommitted : requests[r].buyer_id = b}) <= 1

\* A buyer holding a pending request has had a second create_request refused
\* by the partial unique index.
C1_Witness ==
  \E t \in Conns :
    /\ Done(t) /\ Is(t, "create_request")
    /\ result[t].sqlstate = unique_violation
    /\ \E r \in PendingCommitted : requests[r].buyer_id = call[t].p_user

C3_ExactlyOneSucceeds ==
  OnlyCreates /\ AllDone =>
    \A p \in Properties :
      LET S == CreatesOn(p) IN
        Cardinality(S) >= 2 /\ (\A t \in S : call[t].p_user # seller_id[p]) =>
          /\ Cardinality({t \in S : Won(t)}) = 1
          /\ \A t \in S : ~Won(t) => result[t].sqlstate \in {P0001, unique_violation}

\* C3: of the create_request calls issued on one available property at most
\* one succeeds; every other fails with PropertyNotAvailable (only once a call
\* has won), DuplicatePendingRequest (only for a buyer holding a pending
\* request) or SelfRequestForbidden (only for the seller); the property is
\* requested if a call won and still available if none did, and a call wins
\* whenever some caller is neither the seller nor the holder of a pending
\* request on another property.
C3_AtMostOneSucceeds ==
  OnlyCreates /\ AllDone =>
    \A p \in Properties :
      LET S == CreatesOn(p)
          W == {t \in S : Won(t)}
      IN /\ Cardinality(W) <= 1
         /\ \A t \in S \ W :
              /\ result[t].sqlstate \in {P0001, unique_violation, P0003}
              /\ result[t].sqlstate = P0001 => W # {}
              /\ result[t].sqlstate = P0003 => call[t].p_user = seller_id[p]
              /\ result[t].sqlstate = unique_violation =>
                   \E r \in PendingCommitted : requests[r].buyer_id = call[t].p_user
         /\ properties[p].status = IF W = {} THEN "available" ELSE "requested"
         /\ (\E t \in S : /\ call[t].p_user # seller_id[p]
                          /\ \A r \in Committed : requests[r].buyer_id = call[t].p_user
                                                    => requests[r].property_id = p)
              => W # {}

\* Two calls on one property: one won, the other was refused for the pending
\* request its buyer holds elsewhere.
C3_Witness ==
  /\ OnlyCreates /\ AllDone
  /\ \E p \in Properties :
       /\ Cardinality({t \in CreatesOn(p) : Won(t)}) = 1
       /\ \E t \in CreatesOn(p) : result[t].sqlstate = unique_violation

\* Calls t1 and t2 are create_request calls of two distinct buyers, neither
\* the seller, on the same property, and both have their answer.
Race(t1, t2) ==
  /\ t1 # t2 /\ Done(t1) /\ Done(t2)
  /\ Is(t1, "create_request") /\ Is(t2, "create_request")
  /\ call[t1].p_property \in Properties
  /\ call[t1].p_property = call[t2].p_property
  /\ call[t1].p_user # call[t2].p_user
  /\ seller_id[call[t1].p_property] \notin {call[t1].p_user, call[t2].p_user}

\* One of the two returned the id of a pending request on the property, now
\* requested; the other got PropertyNotAvailable.
OneWinsOtherNotAvailable(t1, t2) ==
  \E w \in {t1, t2} :
    LET l == IF w = t1 THEN t2 ELSE t1
        r == result[w].value
    IN /\ Won(w)
       /\ r \in Committed
       /\ requests[r].status = "pending"
       /\ requests[r].buyer_id = call[w].p_user
       /\ requests[r].property_id = call[w].p_property
       /\ properties[call[w].p_property].status = "requested"
       /\ result[l].sqlstate = P0001
       /\ \A q \in Committed : requests[q].buyer_id # call[l].p_user

HoldsPending(b) == \E r \in PendingCommitted : requests[r].buyer_id = b

\* C5 as stated: a create_request that fails while its buyer holds a pending
\* request fails with DuplicatePendingRequest and leaves its target available.
C5_HolderGetsDuplicate ==
  [][\A t \in Conns :
       /\ Fails(t) /\ Is(t, "create_request")
       /\ call[t].p_property \in Properties
       /\ HoldsPending(call[t].p_user)
       => /\ result'[t].sqlstate = unique_violation
          /\ properties'[call[t].p_property].status = "available"]_vars

\* C5: a create_request by a buyer who holds a pending request never
\* succeeds; when its target is available and is not the buyer's own listing
\* (PropertyNotAvailable and SelfRequestForbidden come first), it fails with
\* DuplicatePendingRequest, which is raised only for a buyer holding a pending
\* request, and the target remains available with no request row, no status
\* change and no history record left by the failed call.
C5_DuplicateAfterChecks ==
  [][\A t \in Conns :
       Is(t, "create_request") /\ call[t].p_property \in Properties =>
         LET b == call[t].p_user
             p == call[t].p_property
         IN /\ Commits(t) => ~HoldsPending(b)
            /\ Fails(t) /\ properties[p].status = "available"
                        /\ properties[p].seller_id # b
               => /\ result'[t].sqlstate = unique_violation
                  /\ HoldsPending(b)
                  /\ properties'[p].status = "available"
                  /\ SnapshotUnchanged
                  /\ NothingLeftOf(t)]_vars

\* Two calls of one buyer on two different properties: one holds the pending
\* request, the other was refused as a duplicate and its target is available.
C5_Witness ==
  \E t, u \in Conns :
    /\ Done(t) /\ Done(u)
    /\ Is(t, "create_request") /\ Is(u, "create_request")
    /\ call[t].p_user = call[u].p_user
    /\ call[t].p_property \in Properties /\ call[u].p_property \in Properties
    /\ call[t].p_property # call[u].p_property
    /\ Won(u)
    /\ result[t].sqlstate = unique_violation
    /\ properties[call[t].p_property].status = "available"

\* C6: once a request's status is accepted, declined or cancelled, no step
\* changes it (the row stays and keeps that status).
C6_TerminalIsFinal ==
  [][\A r \in Committed :
       requests[r].status \in Terminal
         => /\ r \in DOMAIN requests'
            /\ requests'[r].xmin = 0
            /\ requests'[r].status = requests[r].status]_vars

\* A later cancel_request or respond_to_request by the authorised party has
\* run on a request already in a terminal status, and was refused.
C6_Witness ==
  \E t \in Conns :
    /\ Done(t)
    /\ Is(t, "cancel_request") \/ Is(t, "respond_to_request")
    /\ result[t].sqlstate = P0001
    /\ call[t].p_request_id \in Committed
    /\ requests[call[t].p_request_id].status \in Terminal

\* The change a committing call t makes to the status of property p.
EngineTransition(t, p) ==
  LET old == properties[p].status
      new == properties'[p].status
  IN \/ /\ Is(t, "create_request") /\ call[t].p_property = p
        /\ old = "available" /\ new = "requested"
     \/ /\ Is(t, "respond_to_request") /\ v[t].v_property_id = p
        /\ call[t].p_response = "accepted"
        /\ old = "requested" /\ new = "sold"
     \/ /\ Is(t, "respond_to_request") /\ v[t].v_property_id = p
        /\ call[t].p_response = "declined"
        /\ old = "requested" /\ new = "available"
     \/ /\ Is(t, "cancel_request") /\ v[t].v_property_id = p
        /\ old = "requested" /\ new = "available"

\* C7: every change of a property's status made by a committing
\* create_request, cancel_request or respond_to_request is available ->
\* requested (create), requested -> sold (accept) or requested -> available
\* (cancel, decline); and cancel_request and respond_to_request only ever
\* commit on a property whose status is requested.
C7_ThreeTransitions ==
  [][\A t \in Conns :
       Commits(t) =>
         /\ \A p \in Properties :
              properties'[p].status # properties[p].status => EngineTransition(t, p)
         /\ pc[t] \in {"cn_return", "rs_return"}
              => properties[v[t].v_property_id].status = "requested"]_vars

\* Calls t1 and t2 are a cancel_request by the buyer and a respond_to_request
\* by the seller, with a decision of the signature, on the same request; both
\* have their answer and no other call has changed that request.
CancelRespondRace(t1, t2) ==
  /\ Done(t1) /\ Done(t2)
  /\ Is(t1, "cancel_request") /\ Is(t2, "respond_to_request")
  /\ call[t1].p_request_id = call[t2].p_request_id
  /\ call[t1].p_request_id \in Committed
  /\ call[t1].p_user = requests[call[t1].p_request_id].buyer_id
  /\ call[t2].p_user = requests[call[t2].p_request_id].seller_id
  /\ call[t2].p_response \in {"accepted", "declined"}
  /\ \A u \in Conns \ {t1, t2} :
       call[u].op \in {"cancel_request", "respond_to_request"}
       /\ call[u].p_request_id = call[t1].p_request_id
       => Done(u) /\ ~Won(u)

\* C8: when cancel_request by the buyer and respond_to_request by the seller
\* both run on the same pending request, exactly one succeeds and the other
\* fails with InvalidStateTransition; the request has the winner's status,
\* and so has the property as long as no later request was made on it.
C8_OneTransitionWins ==
  \A t1, t2 \in Conns :
    CancelRespondRace(t1, t2) =>
      LET r == call[t1].p_request_id
          p == requests[r].property_id
          alone == \A q \in DOMAIN requests : requests[q].property_id = p => q = r
      IN \/ /\ Won(t1) /\ result[t2].sqlstate = P0001
            /\ requests[r].status = "cancelled"
            /\ alone => properties[p].status = "available"
         \/ /\ Won(t2) /\ result[t1].sqlstate = P0001
            /\ requests[r].status = call[t2].p_response
            /\ alone => properties[p].status =
                          IF call[t2].p_response = "accepted" THEN "sold" ELSE "available"

\* The seller's acceptance won the race and the buyer's cancel was refused.
C8_Witness ==
  \E t1, t2 \in Conns :
    /\ CancelRespondRace(t1, t2)
    /\ Won(t2) /\ result[t1].sqlstate = P0001
    /\ call[t2].p_response = "accepted"
    /\ properties[requests[call[t1].p_request_id].property_id].status = "sold"

Stranger(t) ==
  LET r == call[t].p_request_id IN
    \/ Is(t, "cancel_request") /\ call[t].p_user # requests[r].buyer_id
    \/ /\ Is(t, "respond_to_request") /\ call[t].p_user # requests[r].seller_id
       /\ call[t].p_response \in {"accepted", "declined"}

\* C10: cancel_request commits only for the request's buyer and
\* respond_to_request only for its seller; on an existing request a call by
\* anyone else (for respond_to_request, with a decision of the signature)
\* ends with Forbidden whatever the request's status, and changes nothing.
C10_OnlyTheParties ==
  [][\A t \in Conns :
       call[t].op \in {"cancel_request", "respond_to_request"}
       /\ call[t].p_request_id \in Committed
       /\ Finishes(t)
       => /\ Commits(t) => ~Stranger(t)
          /\ Stranger(t) => /\ result'[t].sqlstate = P0004
                            /\ SnapshotUnchanged
                            /\ NothingLeftOf(t)]_vars

\* A stranger's cancel_request on a request that is no longer pending was
\* answered Forbidden.
C10_Witness ==
  \E t \in Conns :
    /\ Done(t) /\ Is(t, "cancel_request")
    /\ call[t].p_request_id \in Committed
    /\ requests[call[t].p_request_id].status \in Terminal
    /\ call[t].p_user # requests[call[t].p_request_id].buyer_id
    /\ result[t].sqlstate = P0004

\* C11: a cancel_request by the request's own buyer on a request whose status
\* is cancelled, accepted or declined ends with InvalidStateTransition, never
\* with success, and changes neither the request nor any property status.
C11_CancelTerminalRefused ==
  [][\A t \in Conns :
       /\ Finishes(t) /\ Is(t, "cancel_request")
       /\ call[t].p_request_id \in Committed
       /\ requests[call[t].p_request_id].status \in Terminal
       /\ call[t].p_user = requests[call[t].p_request_id].buyer_id
       => /\ result'[t].sqlstate = P0001
          /\ SnapshotUnchanged
          /\ NothingLeftOf(t)]_vars

\* The buyer's cancel_request on a request the seller had accepted was
\* refused; the request is still accepted and the property still sold.
C11_Witness ==
  \E t \in Conns :
    /\ Done(t) /\ Is(t, "cancel_request")
    /\ call[t].p_request_id \in Committed
    /\ call[t].p_user = requests[call[t].p_request_id].buyer_id
    /\ requests[call[t].p_request_id].status = "accepted"
    /\ properties[requests[call[t].p_request_id].property_id].status = "sold"
    /\ result[t].sqlstate = P0001

\* A respond_to_request whose decision is pending or cancelled.
BadDecision(t) ==
  Is(t, "respond_to_request") /\ call[t].p_response \notin {"accepted", "declined"}

\* C12: a respond_to_request with a decision other than accepted or declined
\* ends with InvalidArgument at its first statement, before the request row is
\* locked or read: that statement can always run (it never waits, whoever
\* holds the row lock, whether or not the request exists and whoever calls),
\* it changes nothing, and the call never reaches the SELECT ... FOR UPDATE.
C12_InvalidArgumentFirst ==
  /\ [](\A t \in Conns :
         BadDecision(t) =>
           /\ pc[t] \in {"rs_validate", "done"}
           /\ pc[t] = "rs_validate" => ENABLED respond_to_request_validate(t)
           /\ pc[t] = "done" => result[t].sqlstate = P0005)
  /\ [][\A t \in Conns :
          BadDecision(t) /\ pc[t] = "rs_validate" /\ pc'[t] # "rs_validate"
          => /\ result'[t].sqlstate = P0005
             /\ SnapshotUnchanged
             /\ requests' = requests /\ properties' = properties]_vars

\* A stranger's respond_to_request with decision cancelled got InvalidArgument
\* while another transaction holds the lock on that request's row.
C12_Witness ==
  \E t \in Conns :
    /\ Done(t) /\ BadDecision(t)
    /\ result[t].sqlstate = P0005
    /\ call[t].p_request_id \in Committed
    /\ call[t].p_user # requests[call[t].p_request_id].seller_id
    /\ requests[call[t].p_request_id].xmax \notin {0, t}

\* C13: no request exists whose buyer is the seller of the property it
\* references, and a create_request by the seller of an available property
\* ends with SelfRequestForbidden and creates nothing.
C13_NoSelfRequest ==
  /\ [](\A r \in DOMAIN requests :
         requests[r].buyer_id # properties[requests[r].property_id].seller_id)
  /\ [][\A t \in Conns :
          /\ Finishes(t) /\ Is(t, "create_request")
          /\ call[t].p_property \in Properties
          /\ properties[call[t].p_property].status = "available"
          /\ properties[call[t].p_property].seller_id = call[t].p_user
          => /\ result'[t].sqlstate = P0003
             /\ SnapshotUnchanged
             /\ NothingLeftOf(t)]_vars

\* The buyer has a request that was declined, cancelled or accepted.
HasTerminal(b) ==
  \E r \in Committed : requests[r].buyer_id = b /\ requests[r].status \in Terminal

\* C14: once a buyer's request has been declined, cancelled or accepted, a
\* create_request by that buyer on an available property of another seller
\* does not fail on account of it: it can fail only while the buyer holds
\* another request that is pending; and a committed decline leaves the request
\* declined and its property available again.
C14_FreeAfterTerminal ==
  [][\A t \in Conns :
       /\ /\ Fails(t) /\ Is(t, "create_request")
          /\ call[t].p_property \in Properties
          /\ properties[call[t].p_property].status = "available"
          /\ properties[call[t].p_property].seller_id # call[t].p_user
          /\ HasTerminal(call[t].p_user)
          => HoldsPending(call[t].p_user)
       /\ /\ Commits(t) /\ Is(t, "respond_to_request")
          /\ call[t].p_response = "declined"
          => /\ requests'[call[t].p_request_id].status = "declined"
             /\ properties'[v[t].v_property_id].status = "available"]_vars

\* A buyer whose request on one property was declined has created a pending
\* request on another property; the declined property is available.
C14_Witness ==
  \E t \in Conns, r \in Committed :
    /\ Done(t) /\ Is(t, "create_request") /\ Won(t)
    /\ requests[r].buyer_id = call[t].p_user
    /\ requests[r].status = "declined"
    /\ requests[r].property_id # call[t].p_property
    /\ properties[requests[r].property_id].status = "available"
    /\ result[t].value \in PendingCommitted
    /\ requests[result[t].value].buyer_id = call[t].p_user

\* The status of property p obtained by replaying, in order, the committed
\* property_history records of p from the status a listing starts with.
Replay(p) ==
  LET H == SelectSeq(CommittedHistory, LAMBDA h : h.property_id = p)
  IN IF H = <<>> THEN "available" ELSE H[Len(H)].new_status

\* C15: in every reachable state, replaying the property_history records of a
\* property in order reproduces the property's current status.
C15_HistoryReplays ==
  \A p \in Properties : properties[p].status = Replay(p)

\* C16: the status of a property or of a request changes only in a step
\* that commits a create_request, cancel_request or respond_to_request.
C16_OnlyTheEngineWritesStatus ==
  [][(\/ \E p \in Properties : properties'[p].status # properties[p].status
      \/ \E r \in Committed : requests'[r].status # requests[r].status)
     => \E t \in Conns : Commits(t)]_vars

\* C17: a request row, once committed, stays: no step removes a committed
\* request id from the table.
C17_RequestsOnlyGrow ==
  [][Committed \subseteq {r \in DOMAIN requests' : requests'[r].xmin = 0}]_vars

\* The calls of the edge function made for the request id, and the requests
\* for it still in the queue.
InvocationsOf(id) == {i \in DOMAIN invocations : invocations[i].request_id = id}
QueuedFor(id) == {i \in DOMAIN http_request_queue : http_request_queue[i].request_id = id}
PastChecks(t) ==
  Is(t, "create_request") /\ pc[t] \in {"cr_update", "cr_history", "cr_return"}

\* C18: whatever happens to the notification, a create_request that passed
\* its checks commits and returns its request id, the request pending and
\* the property requested; the notification is attempted once at most.
\* The INSERT fails on a pending request of the buyer only; after it every
\* statement can run and none raises; the RETURN commits the pending
\* request and the requested status and answers the id; a call of the edge
\* function, whatever its response, writes nothing the engine reads; no
\* request id is queued or delivered twice.
C18_NotificationNeverFailsCreate ==
  /\ [][\A t \in Conns :
          Is(t, "create_request") /\ Fails(t) =>
            \/ pc[t] = "cr_check"
            \/ pc[t] = "cr_insert" /\ PendingOf(call[t].p_user) # {}]_vars
  /\ [](\A t \in Conns :
          /\ PastChecks(t) /\ pc[t] = "cr_update" => ENABLED create_request_update(t)
          /\ PastChecks(t) /\ pc[t] = "cr_history" => ENABLED create_request_history(t)
          /\ PastChecks(t) /\ pc[t] = "cr_return" => ENABLED create_request_return(t))
  /\ [][\A t \in Conns :
          PastChecks(t) /\ Finishes(t) =>
            LET id == v[t].v_request_id IN
              /\ result'[t] = [sqlstate |-> Success, value |-> id]
              /\ requests'[id].xmin = 0
              /\ requests'[id].status = "pending"
              /\ requests'[id].buyer_id = call[t].p_user
              /\ properties'[call[t].p_property].status = "requested"]_vars
  /\ [][invocations' # invocations =>
          UNCHANGED <<properties, requests, property_history, pc, call, v, result>>]_vars
  /\ [](\A id \in DOMAIN requests :
          Cardinality(InvocationsOf(id)) + Cardinality(QueuedFor(id)) <= 1)

\* Two create_request calls have returned their ids: the trigger of one
\* queued nothing (net.http_post raised), the delivery of the other failed.
C18_Witness ==
  \E t \in Conns, u \in Conns :
    /\ t # u
    /\ Done(t) /\ Is(t, "create_request") /\ Won(t)
    /\ Done(u) /\ Is(u, "create_request") /\ Won(u)
    /\ requests[result[t].value].status = "pending"
    /\ properties[call[t].p_property].status = "requested"
    /\ InvocationsOf(result[t].value) = {} /\ QueuedFor(result[t].value) = {}
    /\ requests[result[u].value].status = "pending"
    /\ properties[call[u].p_property].status = "requested"
    /\ \E i \in InvocationsOf(result[u].value) : invocations[i].status = 500

C20_BoundedRetries ==
  /\ [](/\ Len(push.log) <= MAX_RETRIES
        /\ push.attempt <= MAX_RETRIES
        /\ \A i \in 1..(Len(push.waits) - 1) : push.waits[i] < push.waits[i + 1]
        /\ push.pc = "done" => push.result \in BOOLEAN)
  /\ [][Len(push.log') > Len(push.log) /\ push.log # <<>> =>
          Len(push.waits) = Len(push.log)]_vars
  /\ (push.pc # "idle" ~> push.pc = "done")

\* The third attempt has failed after waits of 1000 and 2000 ms.
C20_Witness ==
  /\ push.pc = "done"
  /\ push.result = FALSE
  /\ Len(push.log) = 3
  /\ push.waits = <<1000, 2000>>
  /\ push.log[1].kind = "exception" /\ push.log[2].status = 429
  /\ push.log[3].status = 503

\* C21: every error the engine raises reaches the caller of createRequest
\* and of cancelRequest as a typed error, never as a plain Error.
C21_EngineErrorsAreTyped ==
  api.pc = "done" /\ api.outcome.raised # None =>
    api.result.kind = "thrown" /\ api.result.name # "Error"

\* C22: createRequest maps the outcome of the RPC to its result: code P0001
\* to PropertyNotAvailableError, code 23505 to ActivePendingRequestError,
\* any other error whose message contains "network" or "fetch" to
\* NetworkError, no error to the request id; so the unique violation and the
\* non-available property raised by create_request arrive as
\* ActivePendingRequestError and PropertyNotAvailableError.
C22_CreateRequestMapping ==
  api.pc = "done" /\ api.fn = "createRequest" /\ api.outcome.kind # "thrown" =>
    LET o == api.outcome
        r == api.result
    IN /\ o.kind = "data" => r = Returned(o.data)
       /\ o.kind = "error" => r.kind = "thrown"
       /\ o.kind = "error" /\ o.code = P0001 => r.name = "PropertyNotAvailableError"
       /\ o.kind = "error" /\ o.code = unique_violation =>
            r.name = "ActivePendingRequestError"
       /\ o.kind = "error" /\ o.code \notin {P0001, unique_violation}
            /\ (includes(o.message, "network") \/ includes(o.message, "fetch"))
          => r.name = "NetworkError"
       /\ o.raised = "DuplicatePendingRequest" => r.name = "ActivePendingRequestError"
       /\ o.raised = "PropertyNotAvailable" => r.name = "PropertyNotAvailableError"

\* createRequest has thrown ActivePendingRequestError for the unique
\* violation of create_request.
C22_Witness ==
  /\ api.pc = "done" /\ api.fn = "createRequest"
  /\ api.outcome.raised = "DuplicatePendingRequest"
  /\ api.outcome.code = unique_violation
  /\ api.result.name = "ActivePendingRequestError"

\* The call t is in a function and its next statement cannot run.
Blocked(t) == pc[t] \notin {"idle", "done"} /\ ~ENABLED Statement(t)

\* The statements SELECT ... FOR UPDATE.
RowLocks == {"cr_lock", "cn_lock", "rs_lock"}

\* The transaction u holds what the next statement of t needs: the row
\* lock, or an open pending request of the buyer t inserts for.
WaitsFor(t, u) ==
  /\ t # u
  /\ \/ /\ pc[t] = "cr_lock" /\ call[t].p_property \in DOMAIN properties
        /\ properties[call[t].p_property].xmax = u
     \/ /\ pc[t] \in {"cn_lock", "rs_lock"} /\ Visible(call[t].p_request_id)
        /\ requests[call[t].p_request_id].xmax = u
     \/ /\ pc[t] = "cr_insert"
        /\ \E r \in InDoubt(call[t].p_user, t) :
             requests[r].xmin = u \/ requests[r].xmax = u
     \/ /\ pc[t] \in {"cn_update_property", "rs_update_property"}
        /\ properties[v[t].v_property_id].xmax = u

\* The property row, the request row and the buyer a running call works on.
PropertyOf(t) ==
  IF Is(t, "create_request") THEN call[t].p_property
  ELSE IF Visible(call[t].p_request_id) THEN requests[call[t].p_request_id].property_id
  ELSE NoProperty
RequestOf(t) ==
  IF Is(t, "create_request") THEN v[t].v_request_id ELSE call[t].p_request_id
BuyerOf(t) ==
  IF Is(t, "create_request") THEN call[t].p_user
  ELSE IF Visible(call[t].p_request_id) THEN requests[call[t].p_request_id].buyer_id
  ELSE None

\* C23 as stated: a call blocks at its SELECT ... FOR UPDATE only, and two
\* create_request calls on different properties never wait for each other.
C23_OnlyRowLocksBlock ==
  /\ \A t \in Conns : Blocked(t) => pc[t] \in RowLocks
  /\ \A t \in Conns, u \in Conns :
       /\ Is(t, "create_request") /\ Is(u, "create_request")
       /\ call[t].p_property # call[u].p_property
       => ~WaitsFor(t, u)

\* C23 as amended: a call blocks at its SELECT ... FOR UPDATE, at the INSERT
\* of create_request (on an open pending request of the same buyer) and at
\* the UPDATE of the property row in cancel_request and respond_to_request;
\* a blocked call waits for a running transaction, and the two work on the
\* same property row, the same request row or the same buyer.  Two
\* create_request calls of different buyers on different properties never
\* wait for each other.
C23_BlocksOnSharedRowsOnly ==
  /\ \A t \in Conns :
       Blocked(t) =>
         /\ pc[t] \in RowLocks \cup {"cr_insert", "cn_update_property", "rs_update_property"}
         /\ \E u \in Conns : WaitsFor(t, u) /\ pc[u] \notin {"idle", "done"}
  /\ \A t \in Conns, u \in Conns :
       WaitsFor(t, u) =>
         \/ PropertyOf(t) = PropertyOf(u)
         \/ RequestOf(t) = RequestOf(u) /\ RequestOf(t) # NoRequest
         \/ BuyerOf(t) = BuyerOf(u)
  /\ \A t \in Conns, u \in Conns :
       /\ Is(t, "create_request") /\ Is(u, "create_request")
       /\ call[t].p_property # call[u].p_property
       /\ call[t].p_user # call[u].p_user
       => ~WaitsFor(t, u)

\* A create_request on Q waits at its INSERT for a create_request of the
\* same buyer on P, while a create_request of another buyer runs unhindered.
C23_Witness ==
  \E t \in Conns, u \in Conns, w \in Conns :
    /\ Is(t, "create_request") /\ Is(u, "create_request") /\ Is(w, "create_request")
    /\ call[t].p_property # call[u].p_property
    /\ call[t].p_user = call[u].p_user
    /\ Blocked(t) /\ pc[t] = "cr_insert" /\ WaitsFor(t, u)
    /\ call[w].p_user # call[t].p_user
    /\ pc[w] = "cr_check" /\ ~Blocked(w)

\* C24: withdrawn is terminal for the engine: no statement of
\* create_request, cancel_request or respond_to_request changes the status
\* of a withdrawn property, and a create_request that finds the property
\* withdrawn fails with P0001.
C24_WithdrawnIsTerminal ==
  [][\A t \in Conns :
       pc'[t] # pc[t] =>
         /\ \A p \in Properties :
              properties[p].status = "withdrawn" => properties'[p].status = "withdrawn"
         /\ /\ Is(t, "create_request") /\ pc[t] = "cr_check"
            /\ v[t].found /\ v[t].v_status = "withdrawn"
            => Fails(t) /\ result'[t].sqlstate = P0001]_vars

\* C25: create_request checks in a fixed order: P0002 for a property that
\* does not exist, else P0001 for a status other than available, else P0003
\* for the seller's own property, else 23505 for a buyer with a pending
\* request; a create_request that gets through all four inserts.  So a
\* seller on their own non-available property, and a buyer with a pending
\* request on a non-available property, get P0001.
C25_ErrorPrecedence ==
  [][\A t \in Conns :
       Is(t, "create_request") /\ pc[t] \in {"cr_check", "cr_insert"} /\ pc'[t] # pc[t] =>
         LET b == call[t].p_user
             p == call[t].p_property
             expected ==
               IF p \notin DOMAIN properties THEN P0002
               ELSE IF properties[p].status # "available" THEN P0001
               ELSE IF properties[p].seller_id = b THEN P0003
               ELSE IF PendingOf(b) # {} THEN unique_violation
               ELSE Success
         IN /\ pc[t] = "cr_check" /\ expected \in {P0002, P0001, P0003}
               => Fails(t) /\ result'[t].sqlstate = expected
            /\ pc[t] = "cr_check" /\ expected \in {unique_violation, Success}
               => pc'[t] = "cr_insert"
            /\ pc[t] = "cr_insert" /\ expected = unique_violation
               => Fails(t) /\ result'[t].sqlstate = unique_violation
            /\ pc[t] = "cr_insert" /\ expected = Success
               => pc'[t] = "cr_update"]_vars

\* A buyer holding a pending request has asked for a requested property,
\* and a seller for their own requested property: both got P0001.
C25_Witness ==
  \E t \in Conns, u \in Conns :
    /\ Done(t) /\ Is(t, "create_request") /\ result[t].sqlstate = P0001
    /\ HoldsPending(call[t].p_user)
    /\ properties[call[t].p_property].status = "requested"
    /\ properties[call[t].p_property].seller_id # call[t].p_user
    /\ Done(u) /\ Is(u, "create_request") /\ result[u].sqlstate = P0001
    /\ properties[call[u].p_property].seller_id = call[u].p_user

\* C26: the dispatcher goes on to another attempt only after a 5xx or 429
\* answer or an exception of fetch; a 4xx other than 429, a push ticket with
\* status error and an unexpected response body end the delivery, and for a
\* missing or malformed token nothing is sent at all.
C26_RetryOnlyTransient ==
  /\ [](push.token \in {"null", "invalid"} => push.log = <<>> /\ push.pc = "done")
  /\ [][Len(push'.log) > Len(push.log) =>
          LET response == push'.log[Len(push'.log)] IN
            /\ push'.pc = "wait" =>
                 \/ response.kind = "exception"
                 \/ response.status >= 500
                 \/ response.status = 429
            /\ \/ response.status \in 400..499 /\ response.status # 429
               \/ response.status = 200 /\ response.ticket \in {"error", None, "not_json"}
               => push'.pc = "done" /\ push'.result = FALSE]_vars

\* C27: the screen sends the create_request RPC only while isOnline is
\* true, from the Send Request button and from the Retry button alike.
C27_NoRpcWhileOffline ==
  \A i \in DOMAIN screen.rpcs : screen.rpcs[i]

\* The committed requests with the given status that reference p.
RequestsOn(p, status) ==
  {r \in Committed : requests[r].property_id = p /\ requests[r].status = status}

\* C28: with only the three functions running, a property is requested
\* exactly when one pending request references it, and sold exactly when
\* an accepted request references it.
C28_StatusMatchesRequests ==
  \A p \in Properties :
    /\ properties[p].status = "requested" <=> Cardinality(RequestsOn(p, "pending")) = 1
    /\ properties[p].status = "sold" <=> RequestsOn(p, "accepted") # {}
    /\ Cardinality(RequestsOn(p, "pending")) <= 1

\* One property is sold through an accepted request, the other requested
\* through its one pending request, and no call is running.
C28_Witness ==
  \E p \in Properties, q \in Properties :
    /\ properties[p].status = "sold" /\ RequestsOn(p, "accepted") # {}
    /\ properties[q].status = "requested" /\ RequestsOn(q, "pending") # {}
    /\ AllDone

\* The property a respond_to_request(accepted) that has returned made sold.
SoldBy(u) ==
  IF Done(u) /\ Is(u, "respond_to_request") /\ call[u].p_response = "accepted" /\ Won(u)
        /\ call[u].p_request_id \in DOMAIN requests
  THEN requests[call[u].p_request_id].property_id
  ELSE NoProperty

\* C29: once respond_to_request(accepted) has returned, having made a
\* property sold, no statement of create_request, cancel_request or
\* respond_to_request changes that property's status, and every
\* create_request on it that returns afterwards returns P0001.
C29_SoldStaysSold ==
  [][\A u \in Conns, t \in Conns :
       LET p == SoldBy(u) IN
         p \in Properties /\ pc'[t] # pc[t] =>
           /\ properties'[p].status = properties[p].status
           /\ Is(t, "create_request") /\ call[t].p_property = p /\ Finishes(t)
              => result'[t].sqlstate = P0001]_vars

\* No set of calls in which every call waits for another call of the set.
NoWaitCycle ==
  \A S \in SUBSET Conns :
    S # {} => \E t \in S : \A u \in S : ~WaitsFor(t, u)

====
